---- MODULE Spec2Model ----
(***************************************************************************)
(* Model of the ve-urpc transport (src/src/urpc_common.c, vh_urpc.c) and   *)
(* of the AVEO context engine built on it (aveo/src/ThreadContext.cpp).    *)
(*                                                                         *)
(* SpecTQ : one direction of the transfer queue.  A single producer runs   *)
(*          urpc_generic_send (= _alloc_payload, _gc_buffer, urpc_put_cmd) *)
(*          and a single consumer runs urpc_get_cmd / urpc_slot_done.      *)
(*          Every read and write of the shared segment is a step of its    *)
(*          own, so the two sides interleave at memory-access granularity. *)
(* Spec   : one ThreadContext used by two host threads, its command queues *)
(*          and locks, the progress loop, and the remote peer answering    *)
(*          over the send and recv queues.  The transport is used through  *)
(*          whole-call operators here; its interleavings are SpecTQ's.     *)
(***************************************************************************)
EXTENDS Integers, Sequences, FiniteSets, TLC

(***************************************************************************)
(* Bounds of the model.                                                    *)
(***************************************************************************)
LogMB    == 2      \* log2 of the number of mailbox slots
DWords   == 3      \* size of the data ring in 8-byte words
MaxPut   == 5      \* number of requests the producer publishes
MaxCmd   == 2      \* command codes in use: 1..MaxCmd
MaxReq   == 2      \* number of request IDs a context issues

URPC_LEN_MB        == 2^LogMB
URPC_DATA_BUFF_LEN == 8 * DWords
URPC_MAX_HANDLERS  == MaxCmd
URPC_CMD_NONE      == 0

Slots == 0 .. URPC_LEN_MB - 1
Cmds  == 1 .. URPC_MAX_HANDLERS
\* The sends the producer makes, <<cmd, packed payload size>>: no payload, one
\* word, all of the ring but one word, and more than the ring holds.
Sends == { <<1, 0>>, <<URPC_MAX_HANDLERS, 8>>, <<1, URPC_DATA_BUFF_LEN - 8>>,
           <<URPC_MAX_HANDLERS, URPC_DATA_BUFF_LEN + 8>> }

REQ2SLOT(req) == req % URPC_LEN_MB
ALIGN8B(x)    == ((x + 7) \div 8) * 8
\* uint32_t arithmetic: a negative difference wraps around to a huge value.
\* The model checker's integers are 32-bit signed, so the wrap is taken modulo
\* 2^31; every offset and size of the model is far below that, and 2^31 is a
\* multiple of URPC_LEN_MB like 2^32.
U32(x)        == IF x >= 0 THEN x ELSE (2147483647 + x) + 1

EmptyMB == [cmd |-> URPC_CMD_NONE, offs |-> 0, len |-> 0]
EmptyML == [offs |-> 0, len |-> 0]

VARIABLES
  last_put_req,   \* tq->last_put_req
  last_get_req,   \* tq->last_get_req
  mb,             \* tq->mb[slot] : [cmd, offs, len]
  mlist,          \* uc->mlist[slot] : [offs, len]   (sender private)
  free_begin,     \* uc->free_begin                  (sender private)
  free_end,       \* uc->free_end                    (sender private)
  prod,           \* the producer's position and locals
  cons,           \* the consumer's position and locals
  sent,           \* history: what urpc_put_cmd published, in order
  rcvd,           \* history: what urpc_get_cmd returned, in order
  ndone           \* history: number of urpc_slot_done calls

tqvars == <<last_put_req, last_get_req, mb, mlist, free_begin, free_end,
            prod, cons, sent, rcvd, ndone>>

VARIABLES
  state,          \* ThreadContext::state
  is_main_thread, \* ThreadContext::is_main_thread
  seq_no,         \* ThreadContext::seq_no, the next request ID
  rem_reqid,      \* ThreadContext::rem_reqid, IDs not yet given to a peek
  pending,        \* comq: the request queue
  in_flight,      \* comq: the in-flight queue
  completions,    \* comq: the completion queue
  submit_mtx,     \* holder of ThreadContext::submit_mtx
  prog_mtx,       \* holder of ThreadContext::prog_mtx
  sendq,          \* up->send.tq as the context sees it
  recvq,          \* up->recv.tq as the context sees it
  th,             \* per host thread: the API call it is in and its position
  returned,       \* history: IDs returned by callAsync / callVHAsync
  pushOrder,      \* history: commands in the order appended to pending
  published,      \* history: IDs of remote commands put on the send queue
  replied,        \* history: IDs whose reply thunk has run
  executed,       \* history: IDs of host-side commands whose function has run
  cstatus,        \* history: status of the first completion pushed per ID
  delivered,      \* history: per ID, how often a peek returned its completion
  bad_reply       \* history: ID whose reply thunk returned a negative value

ctxvars == <<state, is_main_thread, seq_no, rem_reqid, pending, in_flight,
             completions, submit_mtx, prog_mtx, sendq, recvq, th, returned,
             pushOrder, published, replied, executed, cstatus, delivered,
             bad_reply>>

VARIABLES
  codec           \* the sender and receiver of one payload: format, bytes, results

codecvars == <<codec>>

vars == <<tqvars, ctxvars, codecvars>>

ProdIdle == [pc |-> "idle", cmd |-> 0, size |-> 0, offs |-> 0, len |-> 0,
             last_slot |-> 0, i |-> 0, m |-> EmptyMB, req |-> -1, slot |-> 0]
ConsIdle == [pc |-> "idle", last_put |-> -1, last_get |-> -1, req |-> -1,
             slot |-> 0, m |-> EmptyMB]

\* no payload is being packed or unpacked
CodecIdle == [pc |-> "-", fmt |-> <<>>, args |-> <<>>, fill |-> 0,
              payload |-> <<>>, rc |-> 0, out |-> <<>>]

\* vh_urpc_comm_init
vh_urpc_comm_init ==
  /\ last_put_req = -1
  /\ last_get_req = -1
  /\ mb = [s \in Slots |-> EmptyMB]
  /\ mlist = [s \in Slots |-> EmptyML]
  /\ free_begin = 0
  /\ free_end = URPC_DATA_BUFF_LEN

InitTQ ==
  /\ vh_urpc_comm_init
  /\ prod = ProdIdle
  /\ cons = ConsIdle
  /\ sent = <<>>
  /\ rcvd = <<>>
  /\ ndone = 0

(***************************************************************************)
(* Producer: urpc_generic_send(cmd, fmt, ...) with a packed size `sz`.     *)
(***************************************************************************)
generic_send_begin(c, sz) ==
  /\ prod.pc = "idle"
  /\ last_put_req + 1 < MaxPut
  /\ prod' = [ProdIdle EXCEPT !.cmd = c, !.size = ALIGN8B(sz),
                              !.pc = IF ALIGN8B(sz) # 0 THEN "alloc_test"
                                                        ELSE "put_read"]
  /\ UNCHANGED <<last_put_req, last_get_req, mb, mlist, free_begin, free_end,
                 cons, sent, rcvd, ndone,
                 ctxvars, codecvars>>

\* _alloc_payload: the while condition
alloc_payload_test ==
  /\ prod.pc = "alloc_test"
  /\ prod' = [prod EXCEPT !.pc =
                IF U32(free_end - free_begin) < ALIGN8B(prod.size)
                  THEN "gc_begin" ELSE "alloc_check"]
  /\ UNCHANGED <<last_put_req, last_get_req, mb, mlist, free_begin, free_end,
                 cons, sent, rcvd, ndone,
                 ctxvars, codecvars>>

\* _gc_buffer: read last_put_req, hand the rest of the ring to the last slot
gc_buffer_begin ==
  /\ prod.pc = "gc_begin"
  /\ LET last_slot == REQ2SLOT(U32(last_put_req))
         ml        == mlist[last_slot]
         offs      == IF ml.len = 0 THEN free_begin ELSE ml.offs
     IN  /\ IF free_end = URPC_DATA_BUFF_LEN
              THEN /\ mlist' = [mlist EXCEPT ![last_slot] =
                                  [offs |-> offs, len |-> free_end - offs]]
                   /\ free_begin' = 0
                   /\ free_end' = 0
              ELSE UNCHANGED <<mlist, free_begin, free_end>>
         /\ prod' = [prod EXCEPT !.pc = "gc_read", !.last_slot = last_slot,
                                 !.i = 1]
  /\ UNCHANGED <<last_put_req, last_get_req, mb, cons, sent, rcvd, ndone,
                 ctxvars, codecvars>>

\* _gc_buffer: the loop's read of a mailbox slot
gc_buffer_read ==
  /\ prod.pc = "gc_read"
  /\ prod' = [prod EXCEPT !.pc = "gc_apply",
                !.m = mb[(prod.last_slot + prod.i) % URPC_LEN_MB]]
  /\ UNCHANGED <<last_put_req, last_get_req, mb, mlist, free_begin, free_end,
                 cons, sent, rcvd, ndone,
                 ctxvars, codecvars>>

\* _gc_buffer: the loop's body after the read
gc_buffer_apply ==
  /\ prod.pc = "gc_apply"
  /\ LET slot == (prod.last_slot + prod.i) % URPC_LEN_MB
         ml   == mlist[slot]
     IN  IF prod.m.cmd = URPC_CMD_NONE /\ ml.len > 0
           THEN /\ free_end' = IF free_end < URPC_DATA_BUFF_LEN
                                 THEN ALIGN8B(ml.offs + ml.len)
                                 ELSE free_end
                /\ mlist' = [mlist EXCEPT ![slot] = EmptyML]
                /\ mb' = [mb EXCEPT ![slot] = EmptyMB]
           ELSE UNCHANGED <<free_end, mlist, mb>>
  /\ prod' = [prod EXCEPT !.m = EmptyMB,
                !.i = IF prod.i = URPC_LEN_MB THEN 0 ELSE prod.i + 1,
                !.pc = IF prod.i = URPC_LEN_MB THEN "gc_done" ELSE "gc_read"]
  /\ UNCHANGED <<last_put_req, last_get_req, free_begin, cons, sent, rcvd,
                 ndone,
                 ctxvars, codecvars>>

\* _alloc_payload: gc returned enough, leave the loop
alloc_payload_break ==
  /\ prod.pc = "gc_done"
  /\ ~ (U32(free_end - free_begin) < prod.size)
  /\ prod' = [prod EXCEPT !.pc = "alloc_check", !.last_slot = 0]
  /\ UNCHANGED <<last_put_req, last_get_req, mb, mlist, free_begin, free_end,
                 cons, sent, rcvd, ndone,
                 ctxvars, codecvars>>

\* _alloc_payload: gc returned too little, the deadline has not passed
alloc_payload_retry ==
  /\ prod.pc = "gc_done"
  /\ U32(free_end - free_begin) < prod.size
  /\ prod' = [prod EXCEPT !.pc = "alloc_test", !.last_slot = 0]
  /\ UNCHANGED <<last_put_req, last_get_req, mb, mlist, free_begin, free_end,
                 cons, sent, rcvd, ndone,
                 ctxvars, codecvars>>

\* mutant: the deadline never passes, the loop goes on
alloc_payload_timeout_never ==
  /\ prod.pc = "gc_done"
  /\ U32(free_end - free_begin) < prod.size
  /\ prod' = [prod EXCEPT !.pc = "alloc_test", !.last_slot = 0]
  /\ UNCHANGED <<last_put_req, last_get_req, mb, mlist, free_begin, free_end,
                 cons, sent, rcvd, ndone,
                 ctxvars, codecvars>>

\* _alloc_payload: gc returned too little and URPC_ALLOC_TIMEOUT_US has passed:
\* returns 0 and urpc_generic_send returns -ENOMEM
alloc_payload_timeout ==
  /\ prod.pc = "gc_done"
  /\ U32(free_end - free_begin) < prod.size
  /\ prod' = ProdIdle
  /\ UNCHANGED <<last_put_req, last_get_req, mb, mlist, free_begin, free_end,
                 cons, sent, rcvd, ndone,
                 ctxvars, codecvars>>

\* _alloc_payload: the check after the loop and the bump of free_begin
alloc_payload_check ==
  /\ prod.pc = "alloc_check"
  /\ LET asize == ALIGN8B(prod.size)
     IN  IF free_begin + asize > free_end
           THEN /\ prod' = ProdIdle
                /\ UNCHANGED free_begin
           ELSE /\ prod' = [prod EXCEPT !.pc = "put_read",
                                        !.offs = free_begin,
                                        !.len = prod.size]
                /\ free_begin' = free_begin + asize
  /\ UNCHANGED <<last_put_req, last_get_req, mb, mlist, free_end, cons, sent,
                 rcvd, ndone,
                 ctxvars, codecvars>>

\* urpc_put_cmd: req = last_put_req + 1
put_cmd_read_req ==
  /\ prod.pc = "put_read"
  /\ prod' = [prod EXCEPT !.pc = "put_spin", !.req = last_put_req + 1,
                          !.slot = REQ2SLOT(last_put_req + 1)]
  /\ UNCHANGED <<last_put_req, last_get_req, mb, mlist, free_begin, free_end,
                 cons, sent, rcvd, ndone,
                 ctxvars, codecvars>>

\* what urpc_put_cmd does to free_end with the slot's old mlist entry
put_cmd_free_end(ml) ==
  IF ml.len # 0 /\ free_end < URPC_DATA_BUFF_LEN /\ ml.offs = free_end
    THEN free_end + ml.len
    ELSE free_end

\* the mlist entry urpc_put_cmd records for the request
put_cmd_mlist ==
  IF prod.len # 0 THEN [offs |-> prod.offs, len |-> prod.len] ELSE EmptyML

\* mutant: urpc_put_cmd does not wait for the slot
put_cmd_slot_free_nowait(next) == TRUE

\* the condition on which urpc_put_cmd leaves its do-while loop
put_cmd_slot_free(next) == next.cmd = URPC_CMD_NONE

\* urpc_put_cmd: the read of the slot that ends the spin, then the mlist update
put_cmd_spin ==
  /\ prod.pc = "put_spin"
  /\ put_cmd_slot_free(mb[prod.slot])
  /\ free_end' = put_cmd_free_end(mlist[prod.slot])
  /\ mlist' = [mlist EXCEPT ![prod.slot] = put_cmd_mlist]
  /\ prod' = [prod EXCEPT !.pc = "put_write_mb"]
  /\ UNCHANGED <<last_put_req, last_get_req, mb, free_begin, cons, sent, rcvd,
                 ndone,
                 ctxvars, codecvars>>

\* urpc_put_cmd: TQ_WRITE64(tq->mb[slot].u64, m->u64)
put_cmd_write_mb ==
  /\ prod.pc = "put_write_mb"
  /\ mb' = [mb EXCEPT ![prod.slot] =
              [cmd |-> prod.cmd, offs |-> prod.offs, len |-> prod.len]]
  /\ prod' = [prod EXCEPT !.pc = "put_write_req"]
  /\ UNCHANGED <<last_put_req, last_get_req, mlist, free_begin, free_end,
                 cons, sent, rcvd, ndone,
                 ctxvars, codecvars>>

\* urpc_put_cmd: TQ_WRITE64(tq->last_put_req, req); return req
put_cmd_write_req ==
  /\ prod.pc = "put_write_req"
  /\ last_put_req' = prod.req
  /\ sent' = Append(sent, [req |-> prod.req, cmd |-> prod.cmd,
                           offs |-> prod.offs, len |-> prod.len])
  /\ prod' = ProdIdle
  /\ UNCHANGED <<last_get_req, mb, mlist, free_begin, free_end, cons, rcvd,
                 ndone,
                 ctxvars, codecvars>>

(***************************************************************************)
(* Consumer: one iteration of urpc_recv_progress = urpc_get_cmd, handler,  *)
(* urpc_slot_done.                                                         *)
(***************************************************************************)
\* urpc_get_cmd: last_put = TQ_READ64(tq->last_put_req)
get_cmd_read_put ==
  /\ cons.pc = "idle"
  /\ cons' = [ConsIdle EXCEPT !.pc = "rd_get", !.last_put = last_put_req]
  /\ UNCHANGED <<last_put_req, last_get_req, mb, mlist, free_begin, free_end,
                 prod, sent, rcvd, ndone,
                 ctxvars, codecvars>>

\* mutant: urpc_get_cmd takes last_get itself as the next request
get_cmd_req_same(last_get) == last_get

\* the request urpc_get_cmd takes next
get_cmd_req(last_get) == last_get + 1

\* urpc_get_cmd: last_get = TQ_READ64(tq->last_get_req) and the comparison
get_cmd_read_get ==
  /\ cons.pc = "rd_get"
  /\ IF cons.last_put # last_get_req
       THEN cons' = [cons EXCEPT !.pc = "rd_mb", !.last_get = last_get_req,
                       !.req = get_cmd_req(last_get_req),
                       !.slot = REQ2SLOT(get_cmd_req(last_get_req))]
       ELSE cons' = ConsIdle
  /\ UNCHANGED <<last_put_req, last_get_req, mb, mlist, free_begin, free_end,
                 prod, sent, rcvd, ndone,
                 ctxvars, codecvars>>

\* urpc_get_cmd: m->u64 = TQ_READ64(tq->mb[slot].u64)
get_cmd_read_mb ==
  /\ cons.pc = "rd_mb"
  /\ cons' = [cons EXCEPT !.pc = "wr_get", !.m = mb[cons.slot]]
  /\ UNCHANGED <<last_put_req, last_get_req, mb, mlist, free_begin, free_end,
                 prod, sent, rcvd, ndone,
                 ctxvars, codecvars>>

\* urpc_get_cmd: TQ_WRITE64(tq->last_get_req, req); return req
get_cmd_write_get ==
  /\ cons.pc = "wr_get"
  /\ last_get_req' = cons.req
  /\ rcvd' = Append(rcvd, [req |-> cons.req, cmd |-> cons.m.cmd,
                           offs |-> cons.m.offs, len |-> cons.m.len])
  /\ cons' = [cons EXCEPT !.pc = "handler"]
  /\ UNCHANGED <<last_put_req, mb, mlist, free_begin, free_end, prod, sent,
                 ndone,
                 ctxvars, codecvars>>

\* mutant: the receiver marks the slot after the one it consumed
slot_done_slot_next(req) == REQ2SLOT(req + 1)

\* the slot urpc_recv_progress hands to urpc_slot_done
slot_done_slot(req) == REQ2SLOT(req)

\* urpc_slot_done(tq, REQ2SLOT(req), &m)
slot_done ==
  /\ cons.pc = "handler"
  /\ mb' = [mb EXCEPT ![slot_done_slot(cons.req)] =
              [cons.m EXCEPT !.cmd = URPC_CMD_NONE]]
  /\ ndone' = ndone + 1
  /\ cons' = ConsIdle
  /\ UNCHANGED <<last_put_req, last_get_req, mlist, free_begin, free_end,
                 prod, sent, rcvd,
                 ctxvars, codecvars>>

NextTQ ==
  \/ \E snd \in Sends : generic_send_begin(snd[1], snd[2])
  \/ alloc_payload_test
  \/ gc_buffer_begin
  \/ gc_buffer_read
  \/ gc_buffer_apply
  \/ alloc_payload_break
  \/ alloc_payload_retry
  \/ alloc_payload_timeout
  \/ alloc_payload_check
  \/ put_cmd_read_req
  \/ put_cmd_spin
  \/ put_cmd_write_mb
  \/ put_cmd_write_req
  \/ get_cmd_read_put
  \/ get_cmd_read_get
  \/ get_cmd_read_mb
  \/ get_cmd_write_get
  \/ slot_done

(***************************************************************************)
(* The context engine: ThreadContext and its command queues.               *)
(***************************************************************************)
Threads  == {"t1", "t2"}
NoThread == "none"
ReqIds   == 0 .. MaxReq - 1
VEO_REQUEST_ID_INVALID == -1

\* a command: kind "remote" has a submit and a reply thunk, kinds "vh" and
\* "close" have a host function only; big marks call arguments that do not
\* fit into the payload ring
Command(id, kind, big) ==
  [id |-> id, kind |-> kind, big |-> big, status |-> "UNFINISHED"]
isVH(cmd) == cmd.kind # "remote"
setResult(cmd, status) == [cmd EXCEPT !.status = status]

Ids(q) == {q[k].id : k \in 1 .. Len(q)}
RECURSIVE MapStatus(_, _)
MapStatus(q, status) ==
  IF q = <<>> THEN <<>>
  ELSE <<setResult(Head(q), status)>> \o MapStatus(Tail(q), status)
RECURSIVE RemoveFirst(_, _)
RemoveFirst(q, id) ==
  IF q = <<>> THEN <<>>
  ELSE IF Head(q).id = id THEN Tail(q)
  ELSE <<Head(q)>> \o RemoveFirst(Tail(q), id)
First(q, id) == q[CHOOSE k \in 1 .. Len(q) :
                    q[k].id = id /\ \A j \in 1 .. k - 1 : q[j].id # id]

\* comq
pushRequest_fails(st) == st = "EXIT"
emptyRequest  == pending = <<>>
emptyInFlight(inf) == inf = <<>>
cancelAll(pend, inf, comp) ==
  comp \o MapStatus(pend, "ERROR") \o MapStatus(inf, "ERROR")
peekCompletion(comp, id) == id \in Ids(comp)

\* a transfer queue as the context uses it: whole calls of urpc_put_cmd,
\* urpc_get_cmd and urpc_slot_done; mb holds the command of each slot
EmptyTQ == [last_put_req |-> -1, last_get_req |-> -1,
            mb |-> [s \in Slots |-> "none"]]
urpc_next_send_slot_free(q) == q.mb[REQ2SLOT(q.last_put_req + 1)] = "none"
urpc_put_cmd(q, c) ==
  [q EXCEPT !.mb[REQ2SLOT(q.last_put_req + 1)] = c,
            !.last_put_req = q.last_put_req + 1]
urpc_get_cmd(q) ==
  IF q.last_put_req # q.last_get_req
    THEN [req |-> q.last_get_req + 1,
          m   |-> q.mb[REQ2SLOT(q.last_get_req + 1)],
          q   |-> [q EXCEPT !.last_get_req = q.last_get_req + 1]]
    ELSE [req |-> -1, m |-> "none", q |-> q]
urpc_slot_done(q, slot) == [q EXCEPT !.mb[slot] = "none"]

\* a thread outside the API; what a call returned is not kept
Idle == [op |-> "idle", pc |-> "-", id |-> -1, big |-> FALSE, snap |-> {},
         ops |-> 0]

\* the argument of progress in the API calls: progress(0) in synchronize,
\* progress(3) elsewhere
progress_ops(op) == IF op = "synchronize" THEN 0 ELSE 3

ThreadContext_ctor ==
  /\ state = "UNKNOWN"
  /\ seq_no = 0
  /\ rem_reqid = {}
  /\ pending = <<>>
  /\ in_flight = <<>>
  /\ completions = <<>>
  /\ submit_mtx = NoThread
  /\ prog_mtx = NoThread
  /\ sendq = EmptyTQ
  /\ recvq = EmptyTQ
  /\ th = [t \in Threads |-> Idle]
  /\ returned = {}
  /\ pushOrder = <<>>
  /\ published = {}
  /\ replied = {}
  /\ executed = {}
  /\ cstatus = [i \in ReqIds |-> "NONE"]
  /\ delivered = [i \in ReqIds |-> 0]
  /\ bad_reply = -1

\* the context is the main one (as constructed) or one opened for a worker
Init ==
  /\ InitTQ /\ ThreadContext_ctor /\ is_main_thread \in BOOLEAN
  /\ codec = CodecIdle

\* the transfer queue of a context as constructed
InitMain ==
  /\ InitTQ /\ ThreadContext_ctor /\ is_main_thread = TRUE
  /\ codec = CodecIdle

SpecTQ == InitMain /\ [][NextTQ]_vars

\* first status recorded per ID, for the completions appended to comp
Record(cst, news) ==
  [i \in DOMAIN cst |->
     IF cst[i] = "NONE" /\ i \in Ids(news) THEN First(news, i).status
     ELSE cst[i]]

(* -------- callAsync / callVHAsync -------------------------------------- *)
IssueRequestID(t, op, big) ==
  /\ seq_no \in DOMAIN cstatus
  /\ seq_no' = seq_no + 1
  /\ rem_reqid' = rem_reqid \cup {seq_no}
  /\ th' = [th EXCEPT ![t] = [Idle EXCEPT !.op = op, !.pc = "push",
                                          !.id = seq_no, !.big = big]]

\* mutant of callAsync_refuse: the state of the context is not looked at
callAsync_refuse_nostate(addr, st) == addr = 0
callAsync_refuse(addr, st) == addr = 0 \/ st = "EXIT"

callAsync_begin(t, addr, big) ==
  /\ th[t].op = "idle"
  /\ IF callAsync_refuse(addr, state)
       THEN /\ th' = [th EXCEPT ![t] = Idle]
            /\ UNCHANGED <<seq_no, rem_reqid>>
       ELSE IssueRequestID(t, "callAsync", big)
  /\ UNCHANGED <<state, is_main_thread, pending, in_flight, completions,
                 submit_mtx, prog_mtx, sendq, recvq, returned, pushOrder,
                 published, replied, executed, cstatus, delivered, bad_reply,
                 tqvars, codecvars>>

callAsync_push(t) ==
  /\ th[t].op = "callAsync" /\ th[t].pc = "push"
  /\ submit_mtx = NoThread
  /\ IF pushRequest_fails(state)
       THEN /\ th' = [th EXCEPT ![t] = Idle]
            /\ UNCHANGED <<pending, pushOrder>>
       ELSE LET cmd == Command(th[t].id, "remote", th[t].big) IN
            /\ pending' = Append(pending, cmd)
            /\ pushOrder' = Append(pushOrder, cmd)
            /\ th' = [th EXCEPT ![t].pc = "lock",
                             ![t].ops = progress_ops(th[t].op)]
  /\ UNCHANGED <<state, is_main_thread, seq_no, rem_reqid, in_flight,
                 completions, submit_mtx, prog_mtx, sendq, recvq, returned,
                 published, replied, executed, cstatus, delivered, bad_reply,
                 tqvars, codecvars>>

callVHAsync_begin(t, func) ==
  /\ th[t].op = "idle"
  /\ IF callAsync_refuse(func, state)
       THEN /\ th' = [th EXCEPT ![t] = Idle]
            /\ UNCHANGED <<seq_no, rem_reqid>>
       ELSE IssueRequestID(t, "callVHAsync", FALSE)
  /\ UNCHANGED <<state, is_main_thread, pending, in_flight, completions,
                 submit_mtx, prog_mtx, sendq, recvq, returned, pushOrder,
                 published, replied, executed, cstatus, delivered, bad_reply,
                 tqvars, codecvars>>

\* the result of pushRequest is not looked at
callVHAsync_push(t) ==
  /\ th[t].op = "callVHAsync" /\ th[t].pc = "push"
  /\ submit_mtx = NoThread
  /\ IF pushRequest_fails(state)
       THEN UNCHANGED <<pending, pushOrder>>
       ELSE LET cmd == Command(th[t].id, "vh", FALSE) IN
            /\ pending' = Append(pending, cmd)
            /\ pushOrder' = Append(pushOrder, cmd)
  /\ th' = [th EXCEPT ![t].pc = "lock",
                             ![t].ops = progress_ops(th[t].op)]
  /\ UNCHANGED <<state, is_main_thread, seq_no, rem_reqid, in_flight,
                 completions, submit_mtx, prog_mtx, sendq, recvq, returned,
                 published, replied, executed, cstatus, delivered, bad_reply,
                 tqvars, codecvars>>

(* -------- progress ----------------------------------------------------- *)
\* progress takes prog_mtx with a lock_guard; taking it is part of the
\* first iteration, the thread then stays at "iter" while it holds the lock
InProgress_nolock(t) == th[t].pc \in {"lock", "iter"}
InProgress(t) ==
  \/ th[t].pc = "lock" /\ prog_mtx = NoThread
  \/ th[t].pc = "iter" /\ prog_mtx = t

\* what the caller of progress does next
progress_return(t) ==
  /\ prog_mtx' = NoThread
  /\ IF th[t].op \in {"callAsync", "callVHAsync"}
       THEN /\ th' = [th EXCEPT ![t] = Idle]
            /\ returned' = returned \cup {th[t].id}
       ELSE /\ th' = [th EXCEPT ![t].pc =
                        IF th[t].op = "synchronize" THEN "test" ELSE "look",
                      ![t].ops = 0]
            /\ UNCHANGED returned

\* the reply thunk of callAsync: unpack_call_result on the reply
reply_thunk(m) == IF m = "result" THEN 0 ELSE -1
\* the submit thunk of callAsync: send_call_nolock
submit_thunk(cmd) == IF cmd.big THEN -1 ELSE 0
\* mutant of reply_failed: a failing reply thunk is not noticed
reply_failed_never(rv) == FALSE
reply_failed(rv) == rv < 0
\* mutant of vh_may_run: host-side commands run whatever is in flight
vh_may_run_always(inf) == TRUE
vh_may_run(inf) == emptyInFlight(inf)

\* CommandQueue::popInFlight as progress uses it: the head of in_flight
popInFlight_last(inf) == inf[Len(inf)]
popInFlight(inf) == Head(inf)

\* the receive half of one iteration
RecvHalf ==
  LET r == urpc_get_cmd(recvq) IN
  IF r.req < 0
    THEN [what |-> "none", inf |-> in_flight, comp |-> completions,
          rq |-> recvq, recvd |-> 0, id |-> -1, rv |-> 0]
  ELSE IF in_flight = <<>>
    THEN [what |-> "throw", inf |-> in_flight, comp |-> completions,
          rq |-> r.q, recvd |-> 0, id |-> -1, rv |-> 0]
  ELSE LET cmd == popInFlight(in_flight)
           rv  == reply_thunk(r.m)
       IN  [what  |-> IF reply_failed(rv) THEN "poison" ELSE "reply",
            inf   |-> Tail(in_flight),
            comp  |-> Append(completions,
                        setResult(cmd, IF rv < 0 THEN "EXCEPTION" ELSE "OK")),
            rq    |-> urpc_slot_done(r.q, REQ2SLOT(r.req)),
            recvd |-> 1,
            id    |-> cmd.id,
            rv    |-> rv]

\* mutant: the send queue is not looked at before a command is popped
send_slot_busy_never(q) == FALSE
\* if (urpc_next_send_slot(this->up) < 0) continue;
send_slot_busy(q) == ~urpc_next_send_slot_free(q)

\* the send half of one iteration, after a receive half that left the
\* in-flight queue inf and the completion queue comp
SendHalf(inf, comp) ==
  IF send_slot_busy(sendq) \/ pending = <<>>
    THEN [what |-> "none", pend |-> pending, inf |-> inf, comp |-> comp,
          sq |-> sendq, st |-> state, sent |-> 0, id |-> -1]
  ELSE LET cmd == Head(pending) IN
    IF isVH(cmd)
      THEN IF vh_may_run(inf)
        THEN IF cmd.kind = "close"
          THEN [what |-> "close", pend |-> Tail(pending), inf |-> inf,
                comp |-> comp \o <<setResult(cmd, "OK"), cmd>>,
                sq |-> sendq, st |-> "EXIT", sent |-> 1, id |-> cmd.id]
          ELSE [what |-> "vh", pend |-> Tail(pending), inf |-> inf,
                comp |-> Append(comp, setResult(cmd, "OK")),
                sq |-> sendq, st |-> state, sent |-> 1, id |-> cmd.id]
        ELSE [what |-> "drop", pend |-> Tail(pending), inf |-> inf,
              comp |-> comp, sq |-> sendq, st |-> state, sent |-> 0,
              id |-> cmd.id]
      ELSE IF submit_thunk(cmd) = 0
        THEN [what |-> "publish", pend |-> Tail(pending),
              inf |-> Append(inf, cmd), comp |-> comp,
              sq |-> urpc_put_cmd(sendq, "call"), st |-> state, sent |-> 1,
              id |-> cmd.id]
        ELSE [what |-> "drop", pend |-> Tail(pending), inf |-> inf,
              comp |-> comp, sq |-> sendq, st |-> state, sent |-> 0,
              id |-> cmd.id]

\* popInFlight found nothing for a reply: VEOException leaves the API call
progress_throw(t) ==
  /\ InProgress(t)
  /\ RecvHalf.what = "throw"
  /\ recvq' = RecvHalf.rq
  /\ prog_mtx' = NoThread
  /\ submit_mtx' = IF submit_mtx = t THEN NoThread ELSE submit_mtx
  /\ th' = [th EXCEPT ![t] = Idle]
  /\ UNCHANGED <<state, is_main_thread, seq_no, rem_reqid, pending, in_flight,
                 completions, sendq, returned, pushOrder, published, replied,
                 executed, cstatus, delivered, bad_reply,
                 tqvars, codecvars>>

\* the reply thunk failed: the reply's slot is done, the command completed
progress_poison(t) ==
  /\ InProgress(t)
  /\ RecvHalf.what = "poison"
  /\ recvq' = RecvHalf.rq
  /\ in_flight' = RecvHalf.inf
  /\ completions' = RecvHalf.comp
  /\ cstatus' = Record(cstatus, SubSeq(RecvHalf.comp, Len(completions) + 1,
                                       Len(RecvHalf.comp)))
  /\ replied' = replied \cup {RecvHalf.id}
  /\ bad_reply' = RecvHalf.id
  /\ prog_mtx' = t
  /\ th' = [th EXCEPT ![t].pc = "exit", ![t].ops = @ - 1]
  /\ UNCHANGED <<state, is_main_thread, seq_no, rem_reqid, pending,
                 submit_mtx, sendq, returned, pushOrder, published,
                 executed, delivered,
                 tqvars, codecvars>>

progress_set_exit(t) ==
  /\ th[t].pc = "exit" /\ prog_mtx = t
  /\ state' = "EXIT"
  /\ th' = [th EXCEPT ![t].pc = "cancel"]
  /\ UNCHANGED <<is_main_thread, seq_no, rem_reqid, pending, in_flight,
                 completions, submit_mtx, prog_mtx, sendq, recvq, returned,
                 pushOrder, published, replied, executed, cstatus, delivered,
                 bad_reply,
                 tqvars, codecvars>>

progress_cancel(t) ==
  /\ th[t].pc = "cancel" /\ prog_mtx = t
  /\ completions' = cancelAll(pending, in_flight, completions)
  /\ cstatus' = Record(cstatus, SubSeq(completions', Len(completions) + 1,
                                       Len(completions')))
  /\ pending' = <<>>
  /\ in_flight' = <<>>
  /\ progress_return(t)
  /\ UNCHANGED <<state, is_main_thread, seq_no, rem_reqid, submit_mtx, sendq,
                 recvq, pushOrder, published, replied, executed, delivered,
                 bad_reply,
                 tqvars, codecvars>>

\* one iteration of the loop without failure; the loop ends, and progress
\* returns, after an iteration that neither received nor sent
progress_iter(t) ==
  /\ InProgress(t)
  /\ RecvHalf.what \in {"none", "reply"}
  /\ LET R == RecvHalf
         S == SendHalf(R.inf, R.comp)
     IN
     /\ recvq' = R.rq
     /\ sendq' = S.sq
     /\ pending' = S.pend
     /\ in_flight' = S.inf
     /\ completions' = S.comp
     /\ state' = S.st
     /\ cstatus' = Record(cstatus, SubSeq(S.comp, Len(completions) + 1,
                                          Len(S.comp)))
     /\ replied' = IF R.what = "reply" THEN replied \cup {R.id} ELSE replied
     /\ published' = IF S.what = "publish" THEN published \cup {S.id}
                     ELSE published
     /\ executed' = IF S.what = "vh" THEN executed \cup {S.id} ELSE executed
     /\ bad_reply' = IF R.what = "reply" /\ R.rv < 0 THEN R.id ELSE bad_reply
     /\ IF R.recvd + S.sent > 0
          THEN /\ prog_mtx' = t
               /\ th' = [th EXCEPT ![t].pc = "iter", ![t].ops = @ - 1]
               /\ UNCHANGED returned
          ELSE progress_return(t)
  /\ UNCHANGED <<is_main_thread, seq_no, rem_reqid, submit_mtx, pushOrder,
                 delivered,
                 tqvars, codecvars>>

(* -------- callPeekResult / callWaitResult ------------------------------ *)
callPeekResult_begin(t, id) ==
  /\ th[t].op = "idle"
  /\ id < seq_no
  /\ th' = [th EXCEPT ![t] = [Idle EXCEPT !.op = "callPeekResult",
                                          !.pc = "lock", !.id = id,
                                         !.ops = progress_ops("callPeekResult")]]
  /\ UNCHANGED <<state, is_main_thread, seq_no, rem_reqid, pending, in_flight,
                 completions, submit_mtx, prog_mtx, sendq, recvq, returned,
                 pushOrder, published, replied, executed, cstatus, delivered,
                 bad_reply,
                 tqvars, codecvars>>

\* the part of callPeekResult under req_mtx.  callWaitResult is this call
\* repeated while it returns UNFINISHED, which the threads here may do.
callPeekResult_look(t) ==
  /\ th[t].op = "callPeekResult" /\ th[t].pc = "look"
  /\ LET id == th[t].id IN
     IF id \notin rem_reqid
       THEN /\ th' = [th EXCEPT ![t] = Idle]
            /\ UNCHANGED <<rem_reqid, completions, delivered>>
     ELSE IF peekCompletion(completions, id)
       THEN /\ rem_reqid' = rem_reqid \ {id}
            /\ completions' = RemoveFirst(completions, id)
            /\ delivered' = [delivered EXCEPT ![id] = delivered[id] + 1]
            /\ th' = [th EXCEPT ![t] = Idle]
     ELSE /\ th' = [th EXCEPT ![t] = Idle]
          /\ UNCHANGED <<rem_reqid, completions, delivered>>
  /\ UNCHANGED <<state, is_main_thread, seq_no, pending, in_flight,
                 submit_mtx, prog_mtx, sendq, recvq, returned, pushOrder,
                 published, replied, executed, cstatus, bad_reply,
                 tqvars, codecvars>>

(* -------- synchronize -------------------------------------------------- *)
\* mutant of synchronize_done: only the request queue is looked at
synchronize_done_pending(pend, inf) == pend = <<>>
\* the loop condition of _synchronize_nolock, negated
synchronize_done(pend, inf) == pend = <<>> /\ emptyInFlight(inf)

\* synchronize takes submit_mtx and keeps it until both queues are empty
synchronize_begin(t) ==
  /\ th[t].op = "idle"
  /\ submit_mtx = NoThread
  /\ IF synchronize_done(pending, in_flight)
       THEN UNCHANGED <<submit_mtx, th>>
       ELSE /\ submit_mtx' = t
            /\ th' = [th EXCEPT ![t] = [Idle EXCEPT !.op = "synchronize",
                                                    !.pc = "lock",
                                                    !.ops = progress_ops("synchronize")]]
  /\ UNCHANGED <<state, is_main_thread, seq_no, rem_reqid, pending, in_flight,
                 completions, prog_mtx, sendq, recvq, returned, pushOrder,
                 published, replied, executed, cstatus, delivered, bad_reply,
                 tqvars, codecvars>>

synchronize_test(t) ==
  /\ th[t].op = "synchronize" /\ th[t].pc = "test"
  /\ IF synchronize_done(pending, in_flight)
       THEN /\ submit_mtx' = NoThread
            /\ th' = [th EXCEPT ![t] = Idle]
       ELSE /\ th' = [th EXCEPT ![t].pc = "lock",
                             ![t].ops = progress_ops("synchronize")]
            /\ UNCHANGED submit_mtx
  /\ UNCHANGED <<state, is_main_thread, seq_no, rem_reqid, pending, in_flight,
                 completions, prog_mtx, sendq, recvq, returned, pushOrder,
                 published, replied, executed, cstatus, delivered, bad_reply,
                 tqvars, codecvars>>

(* -------- close -------------------------------------------------------- *)
\* snap remembers the requests outstanding when close was called
close_begin(t) ==
  /\ th[t].op = "idle"
  /\ IF state = "EXIT" \/ is_main_thread
       THEN /\ th' = [th EXCEPT ![t] = Idle]
            /\ UNCHANGED <<seq_no, rem_reqid>>
       ELSE /\ seq_no \in DOMAIN cstatus
            /\ seq_no' = seq_no + 1
            /\ rem_reqid' = rem_reqid \cup {seq_no}
            /\ th' = [th EXCEPT ![t] =
                        [Idle EXCEPT !.op = "close", !.pc = "push",
                                     !.id = seq_no,
                                     !.snap = Ids(pending) \cup Ids(in_flight)]]
  /\ UNCHANGED <<state, is_main_thread, pending, in_flight, completions,
                 submit_mtx, prog_mtx, sendq, recvq, returned, pushOrder,
                 published, replied, executed, cstatus, delivered, bad_reply,
                 tqvars, codecvars>>

\* pushRequest without submit_mtx; on failure close waits for the invalid ID
close_push(t) ==
  /\ th[t].op = "close" /\ th[t].pc = "push"
  /\ IF pushRequest_fails(state)
       THEN /\ th' = [th EXCEPT ![t].pc = "wait",
                                ![t].id = VEO_REQUEST_ID_INVALID]
            /\ UNCHANGED <<pending, pushOrder>>
       ELSE LET cmd == Command(th[t].id, "close", FALSE) IN
            /\ pending' = Append(pending, cmd)
            /\ pushOrder' = Append(pushOrder, cmd)
            /\ th' = [th EXCEPT ![t].pc = "wait"]
  /\ UNCHANGED <<state, is_main_thread, seq_no, rem_reqid, in_flight,
                 completions, submit_mtx, prog_mtx, sendq, recvq, returned,
                 published, replied, executed, cstatus, delivered, bad_reply,
                 tqvars, codecvars>>

\* waitCompletion(id) blocks until a completion with this ID is there
waitCompletion_ready(comp, id) == id \in Ids(comp)

close_wait(t) ==
  /\ th[t].op = "close" /\ th[t].pc = "wait"
  /\ waitCompletion_ready(completions, th[t].id)
  /\ completions' = RemoveFirst(completions, th[t].id)
  /\ th' = [th EXCEPT ![t] = Idle]
  /\ UNCHANGED <<state, is_main_thread, seq_no, rem_reqid, pending, in_flight,
                 submit_mtx, prog_mtx, sendq, recvq, returned, pushOrder,
                 published, replied, executed, cstatus, delivered, bad_reply,
                 tqvars, codecvars>>

(* -------- the remote peer ---------------------------------------------- *)
\* the peer takes the next call from the send queue, marks its slot done
\* and puts the reply, a result or an exception, on the recv queue
Replies == {"result", "exception"}
remote_serve(reply) ==
  /\ urpc_get_cmd(sendq).req >= 0
  /\ urpc_next_send_slot_free(recvq)
  /\ sendq' = urpc_slot_done(urpc_get_cmd(sendq).q,
                             REQ2SLOT(urpc_get_cmd(sendq).req))
  /\ recvq' = urpc_put_cmd(recvq, reply)
  /\ UNCHANGED <<state, is_main_thread, seq_no, rem_reqid, pending, in_flight,
                 completions, submit_mtx, prog_mtx, th, returned, pushOrder,
                 published, replied, executed, cstatus, delivered, bad_reply,
                 tqvars, codecvars>>

Next ==
  \/ \E t \in Threads :
       \/ \E addr \in {0, 1}, big \in BOOLEAN : callAsync_begin(t, addr, big)
       \/ callAsync_push(t)
       \/ \E func \in {0, 1} : callVHAsync_begin(t, func)
       \/ callVHAsync_push(t)
       \/ progress_iter(t)
       \/ progress_throw(t)
       \/ progress_poison(t)
       \/ progress_set_exit(t)
       \/ progress_cancel(t)
       \/ \E id \in ReqIds : callPeekResult_begin(t, id)
       \/ callPeekResult_look(t)
       \/ synchronize_begin(t)
       \/ synchronize_test(t)
       \/ close_begin(t)
       \/ close_push(t)
       \/ close_wait(t)
  \/ \E reply \in Replies : remote_serve(reply)

Spec == Init /\ [][Next]_vars

\* a thread inside an API call goes on whenever it can; the peer answers
\* the calls it was sent.  A thread outside the API need not call it again.
Continue(t) ==
  \/ callAsync_push(t)
  \/ callVHAsync_push(t)
  \/ progress_iter(t)
  \/ progress_throw(t)
  \/ progress_poison(t)
  \/ progress_set_exit(t)
  \/ progress_cancel(t)
  \/ callPeekResult_look(t)
  \/ synchronize_test(t)
  \/ close_push(t)
  \/ close_wait(t)
Fairness ==
  /\ \A t \in Threads : WF_vars(Continue(t))
  /\ WF_vars(\E reply \in Replies : remote_serve(reply))
SpecFair == Spec /\ Fairness

(***************************************************************************)
(* urpc_recv_progress as a whole: the budget, the handler table and the    *)
(* handler's return value.  The producer publishes commands without        *)
(* payload with the urpc_put_cmd steps above; the consumer record here has *)
(* the locals of urpc_recv_progress.                                       *)
(***************************************************************************)
MaxBudget == 2     \* largest ncmds handed to urpc_recv_progress

\* up->handler[cmd]: command 1 has a handler registered, the others have none
handler(cmd) == cmd = 1

\* the values a handler returns: zero, or an error
HandlerRets == {0, -1}

RecvIdle == [pc |-> "idle", ncmds |-> 0, done |-> 0, req |-> -1,
             m |-> EmptyMB, err |-> 0, ret |-> -1, start |-> 0, seen |-> {}]

\* mutant: the loop admits one request more than ncmds
recv_progress_more_incl(done, ncmds) == done <= ncmds

\* while (done < ncmds)
recv_progress_more(done, ncmds) == done < ncmds

\* a call of urpc_recv_progress(up, ncmds) starts: err = 0, done = 0
recv_progress_begin(n) ==
  /\ cons.pc = "idle"
  /\ cons' = [RecvIdle EXCEPT !.pc = "loop", !.ncmds = n,
                              !.start = Len(rcvd)]
  /\ UNCHANGED <<last_put_req, last_get_req, mb, mlist, free_begin, free_end,
                 prod, sent, rcvd, ndone,
                 ctxvars, codecvars>>

\* the while test, req = urpc_get_cmd(tq, &m), and the break on req < 0
recv_progress_get ==
  /\ cons.pc = "loop"
  /\ LET req == get_cmd_req(last_get_req)
         m   == mb[REQ2SLOT(req)]
     IN IF recv_progress_more(cons.done, cons.ncmds)
           /\ last_put_req # last_get_req /\ m.cmd # URPC_CMD_NONE
          THEN /\ last_get_req' = req
               /\ rcvd' = Append(rcvd, [req |-> req, cmd |-> m.cmd,
                                        offs |-> m.offs, len |-> m.len])
               /\ cons' = [cons EXCEPT !.pc = "handler", !.req = req, !.m = m]
          ELSE /\ cons' = [cons EXCEPT !.pc = "idle", !.ret = cons.done]
               /\ UNCHANGED <<last_get_req, rcvd>>
  /\ UNCHANGED <<last_put_req, mb, mlist, free_begin, free_end, prod, sent,
                 ndone,
                 ctxvars, codecvars>>

\* func = up->handler[m.c.cmd]; if (func) err = func(up, &m, req, ...)
recv_progress_handler(rv) ==
  /\ cons.pc = "handler"
  /\ IF handler(cons.m.cmd)
       THEN cons' = [cons EXCEPT !.pc = "slot_done", !.err = rv,
                       !.seen = @ \cup {IF rv = 0 THEN "zero" ELSE "error"}]
       ELSE /\ rv = 0
            /\ cons' = [cons EXCEPT !.pc = "slot_done",
                                    !.seen = @ \cup {"no handler"}]
  /\ UNCHANGED <<last_put_req, last_get_req, mb, mlist, free_begin, free_end,
                 prod, sent, rcvd, ndone,
                 ctxvars, codecvars>>

\* urpc_slot_done(tq, REQ2SLOT(req), &m); ++done
recv_progress_slot_done ==
  /\ cons.pc = "slot_done"
  /\ mb' = [mb EXCEPT ![slot_done_slot(cons.req)] =
              [cons.m EXCEPT !.cmd = URPC_CMD_NONE]]
  /\ ndone' = ndone + 1
  /\ cons' = [cons EXCEPT !.pc = "loop", !.done = @ + 1]
  /\ UNCHANGED <<last_put_req, last_get_req, mlist, free_begin, free_end,
                 prod, sent, rcvd,
                 ctxvars, codecvars>>

InitRecv ==
  /\ vh_urpc_comm_init
  /\ prod = ProdIdle
  /\ cons = RecvIdle
  /\ sent = <<>>
  /\ rcvd = <<>>
  /\ ndone = 0
  /\ ThreadContext_ctor
  /\ is_main_thread = TRUE
  /\ codec = CodecIdle

NextRecv ==
  \/ \E c \in Cmds : generic_send_begin(c, 0)
  \/ put_cmd_read_req
  \/ put_cmd_spin
  \/ put_cmd_write_mb
  \/ put_cmd_write_req
  \/ \E n \in 0 .. MaxBudget : recv_progress_begin(n)
  \/ recv_progress_get
  \/ \E rv \in HandlerRets : recv_progress_handler(rv)
  \/ recv_progress_slot_done

SpecRecv == InitRecv /\ [][NextRecv]_vars

(***************************************************************************)
(* The sender keeps running while it is inside _alloc_payload, and the     *)
(* time it compares with URPC_ALLOC_TIMEOUT_US passes: a loop that comes   *)
(* to the deadline test again and again finds the deadline passed.         *)
(***************************************************************************)
AllocStep ==
  \/ alloc_payload_test
  \/ gc_buffer_begin
  \/ gc_buffer_read
  \/ gc_buffer_apply
  \/ alloc_payload_break
  \/ alloc_payload_check

FairnessTQ == WF_vars(AllocStep) /\ SF_vars(alloc_payload_timeout)

SpecTQFair == SpecTQ /\ FairnessTQ

(***************************************************************************)
(* _gc_buffer and _alloc_payload run by the sender alone, from a state in  *)
(* which the receiver is at rest: the functions of the allocator state     *)
(* [fb, fe, ml, mbx] = free_begin, free_end, mlist, mailbox.               *)
(***************************************************************************)
GcPasses == 3      \* rounds of the _alloc_payload loop before the deadline

AllocState == [fb |-> free_begin, fe |-> free_end, ml |-> mlist, mbx |-> mb]

\* _gc_buffer: the wrap of a free interval that ends at the end of the ring
gc_buffer_wrap(s, last_slot) ==
  IF s.fe = URPC_DATA_BUFF_LEN
    THEN LET offs == IF s.ml[last_slot].len = 0 THEN s.fb
                                                ELSE s.ml[last_slot].offs
         IN  [s EXCEPT !.ml[last_slot] = [offs |-> offs, len |-> s.fe - offs],
                       !.fb = 0, !.fe = 0]
    ELSE s

\* _gc_buffer: the loop over the slots, from i on
RECURSIVE gc_buffer_loop(_, _, _)
gc_buffer_loop(s, last_slot, i) ==
  IF i > URPC_LEN_MB THEN s
  ELSE LET slot == (last_slot + i) % URPC_LEN_MB
           t == IF s.mbx[slot].cmd = URPC_CMD_NONE /\ s.ml[slot].len > 0
                  THEN [s EXCEPT
                          !.fe = IF s.fe < URPC_DATA_BUFF_LEN
                                   THEN ALIGN8B(s.ml[slot].offs + s.ml[slot].len)
                                   ELSE s.fe,
                          !.ml[slot] = EmptyML,
                          !.mbx[slot] = EmptyMB]
                  ELSE s
       IN  gc_buffer_loop(t, last_slot, i + 1)

\* _gc_buffer(uc)
gc_buffer(s) ==
  LET last_slot == REQ2SLOT(U32(last_put_req))
  IN  gc_buffer_loop(gc_buffer_wrap(s, last_slot), last_slot, 1)

\* _alloc_payload: the check after the loop; 0 is the failure
alloc_payload_result(s, size) ==
  IF s.fb + ALIGN8B(size) > s.fe THEN "0" ELSE "buffer"

\* _alloc_payload(uc, size), the deadline passing after n rounds of the loop
RECURSIVE alloc_payload(_, _, _)
alloc_payload(s, size, n) ==
  IF U32(s.fe - s.fb) < ALIGN8B(size)
    THEN IF n = 0 THEN "0"
         ELSE LET t == gc_buffer(s)
              IN  IF U32(t.fe - t.fb) < size
                    THEN alloc_payload(t, size, n - 1)
                    ELSE alloc_payload_result(t, size)
    ELSE alloc_payload_result(s, size)

(***************************************************************************)
(* The payload codec: urpc_generic_send packs the variadic arguments that  *)
(* a format string over I, L, x, P describes into a payload buffer,        *)
(* urpc_unpack_payload reads them back.  Buffers are sequences of bytes,   *)
(* pp is the offset of the C pointer pp from the start of the payload.     *)
(* Values are stored as the little-endian bytes of the machine.            *)
(***************************************************************************)
MaxFmt == 3        \* longest format string

FmtChars == {"I", "L", "x", "P"}
Fmts == UNION { [1 .. n -> FmtChars] : n \in 0 .. MaxFmt }

\* argument values: integers with several distinct bytes, buffers of a length
\* that is and is not a multiple of 8
IntVals == {0, 258, 16909060}
BufVals == { <<>>, <<7, 9, 11>>, <<1, 2, 3, 4, 5, 6, 7, 8>> }
NoArg == [v |-> 0, b |-> <<>>]
ArgVals(c) ==
  IF c \in {"I", "L"} THEN { [v |-> x, b |-> <<>>] : x \in IntVals }
  ELSE IF c = "P" THEN { [v |-> 0, b |-> x] : x \in BufVals }
  ELSE {NoArg}
AllArgVals == UNION { ArgVals(c) : c \in FmtChars }

\* what the payload memory holds before it is written
FillBytes == {0, 85}

\* the n bytes of the unsigned value v, lowest first
LE(v, n) == [i \in 1 .. n |-> IF i <= 4 THEN (v \div 256^(i-1)) % 256 ELSE 0]

\* the unsigned value of little-endian bytes; values of 2^31 and more stand
\* for themselves as -1
RECURSIVE LEValue(_)
LEValue(bs) ==
  IF bs = <<>> THEN 0
  ELSE IF Len(bs) > 4
         THEN IF bs[Len(bs)] # 0 THEN -1 ELSE LEValue(SubSeq(bs, 1, Len(bs) - 1))
  ELSE IF Len(bs) = 4 /\ bs[4] >= 128 THEN -1
  ELSE bs[1] + 256 * LEValue(Tail(bs))

\* memory: a store of bytes at offset pp, a load of n bytes from offset pp
Store(buf, pp, bs) ==
  [j \in 1 .. Len(buf) |->
     IF pp < j /\ j <= pp + Len(bs) THEN bs[j - pp] ELSE buf[j]]
Load(buf, pp, n) == [j \in 1 .. n |-> IF pp + j <= Len(buf) THEN buf[pp + j] ELSE 85]

\* mutant: the buffer content of a P field is not counted
pack_field_size_header(c, a) ==
  IF c = "I" THEN 4 ELSE IF c = "L" THEN 8 ELSE IF c = "P" THEN 8 ELSE 4

\* urpc_generic_send, first loop: what a field adds to size
pack_field_size(c, a) ==
  IF c = "I" THEN 4
  ELSE IF c = "L" THEN 8
  ELSE IF c = "P" THEN 8 + Len(a.b)
  ELSE 4

\* urpc_generic_send, first loop: size of the fields from i on
RECURSIVE pack_size(_, _, _)
pack_size(fmt, args, i) ==
  IF i > Len(fmt) THEN 0
  ELSE pack_field_size(fmt[i], args[i]) + pack_size(fmt, args, i + 1)

\* urpc_generic_send, second loop: the fields from i on written at pp
RECURSIVE pack_fill(_, _, _, _, _)
pack_fill(buf, pp, fmt, args, i) ==
  IF i > Len(fmt) THEN buf
  ELSE LET c == fmt[i]
           a == args[i]
       IN  IF c = "I"
             THEN pack_fill(Store(buf, pp, LE(a.v, 4)), pp + 4, fmt, args, i + 1)
           ELSE IF c = "L"
             THEN pack_fill(Store(buf, pp, LE(a.v, 8)), pp + 8, fmt, args, i + 1)
           ELSE IF c = "P"
             THEN pack_fill(Store(Store(buf, pp, LE(Len(a.b), 8)), pp + 8, a.b),
                            pp + 8 + Len(a.b), fmt, args, i + 1)
           ELSE pack_fill(buf, pp + 4, fmt, args, i + 1)

\* urpc_generic_send: the payload of ALIGN8B(size) bytes it hands to
\* urpc_put_cmd, allocated from memory that holds the byte fill
urpc_generic_send_payload(fmt, args, fill) ==
  LET size == ALIGN8B(pack_size(fmt, args, 1))
  IN  IF size # 0
        THEN pack_fill([j \in 1 .. size |-> fill], 0, fmt, args, 1)
        ELSE <<>>

\* urpc_unpack_payload: the loop from field i on; out collects what is stored
\* through the argument pointers (a P field: the size and the pointer, as an
\* offset into the payload)
RECURSIVE unpack_loop(_, _, _, _, _, _)
unpack_loop(buf, pp, lsz, fmt, i, out) ==
  IF i > Len(fmt) \/ lsz < 0 THEN [out |-> out, lsz |-> lsz]
  ELSE LET c == fmt[i]
       IN  IF c = "I"
             THEN unpack_loop(buf, pp + 4, lsz - 4, fmt, i + 1,
                    Append(out, [v |-> LEValue(Load(buf, pp, 4)), n |-> 0, ptr |-> 0]))
           ELSE IF c = "L"
             THEN unpack_loop(buf, pp + 8, lsz - 8, fmt, i + 1,
                    Append(out, [v |-> LEValue(Load(buf, pp, 8)), n |-> 0, ptr |-> 0]))
           ELSE IF c = "P"
             THEN LET n == LEValue(Load(buf, pp, 8))
                  IN  unpack_loop(buf, pp + 8 + n, lsz - 8 - n, fmt, i + 1,
                        Append(out, [v |-> 0, n |-> n, ptr |-> pp + 8]))
           ELSE unpack_loop(buf, pp + 4, lsz - 4, fmt, i + 1,
                  Append(out, [v |-> 0, n |-> 0, ptr |-> 0]))

\* urpc_unpack_payload(payload, psz, fmt, ...)
urpc_unpack_payload(buf, psz, fmt) ==
  LET r == unpack_loop(buf, 0, psz, fmt, 1, <<>>)
  IN  [rc |-> IF r.lsz < 0 THEN -1 ELSE 0, out |-> r.out]

\* offset of field i in the payload
RECURSIVE FieldOffset(_, _, _)
FieldOffset(fmt, args, i) ==
  IF i = 1 THEN 0
  ELSE FieldOffset(fmt, args, i - 1) + pack_field_size(fmt[i-1], args[i-1])

\* the format keeps 64 bit values and buffers on 8 byte boundaries and 32 bit
\* values on 4 byte boundaries
Aligned(fmt, args) ==
  \A i \in 1 .. Len(fmt) :
     FieldOffset(fmt, args, i) % (IF fmt[i] \in {"L", "P"} THEN 8 ELSE 4) = 0

\* a sender about to call urpc_generic_send with a format and its arguments
InitCodec ==
  /\ InitTQ /\ ThreadContext_ctor /\ is_main_thread = TRUE
  /\ \E fmt \in Fmts :
       \E args \in [1 .. Len(fmt) -> AllArgVals] :
         \E fill \in FillBytes :
           /\ \A i \in 1 .. Len(fmt) : args[i] \in ArgVals(fmt[i])
           /\ Aligned(fmt, args)
           /\ codec = [CodecIdle EXCEPT !.pc = "send", !.fmt = fmt,
                                        !.args = args, !.fill = fill]

\* the sender packs the payload
codec_send ==
  /\ codec.pc = "send"
  /\ codec' = [codec EXCEPT !.pc = "sent",
                 !.payload = urpc_generic_send_payload(codec.fmt, codec.args,
                                                       codec.fill)]
  /\ UNCHANGED <<tqvars, ctxvars>>

\* the receiver's handler unpacks the payload with the same format
codec_unpack ==
  /\ codec.pc = "sent"
  /\ LET r == urpc_unpack_payload(codec.payload, Len(codec.payload), codec.fmt)
     IN  codec' = [codec EXCEPT !.pc = "unpacked", !.rc = r.rc, !.out = r.out]
  /\ UNCHANGED <<tqvars, ctxvars>>

NextCodec == codec_send \/ codec_unpack

SpecCodec == InitCodec /\ [][NextCodec]_vars

(***************************************************************************)
(* The context with a full send queue: URPC_LEN_MB calls were submitted    *)
(* with callAsync and published, the peer has not fetched any of them.     *)
(* One more request ID is followed.                                        *)
(***************************************************************************)
FullIds == 0 .. URPC_LEN_MB - 1

InitFull ==
  /\ InitTQ
  /\ is_main_thread \in BOOLEAN
  /\ codec = CodecIdle
  /\ state = "UNKNOWN"
  /\ seq_no = URPC_LEN_MB
  /\ rem_reqid = FullIds
  /\ pending = <<>>
  /\ in_flight = [k \in 1 .. URPC_LEN_MB |-> Command(k - 1, "remote", FALSE)]
  /\ completions = <<>>
  /\ submit_mtx = NoThread
  /\ prog_mtx = NoThread
  /\ sendq = [last_put_req |-> URPC_LEN_MB - 1, last_get_req |-> -1,
              mb |-> [s \in Slots |-> "call"]]
  /\ recvq = EmptyTQ
  /\ th = [t \in Threads |-> Idle]
  /\ returned = FullIds
  /\ pushOrder = [k \in 1 .. URPC_LEN_MB |-> Command(k - 1, "remote", FALSE)]
  /\ published = FullIds
  /\ replied = {}
  /\ executed = {}
  /\ cstatus = [i \in 0 .. URPC_LEN_MB |-> "NONE"]
  /\ delivered = [i \in 0 .. URPC_LEN_MB |-> 0]
  /\ bad_reply = -1

SpecFull == InitFull /\ [][Next]_vars

(***************************************************************************)
(* urpc_get_req: the fetch of one chosen request.  The producer publishes  *)
(* commands without payload with the urpc_put_cmd steps above; the         *)
(* consumer asks for any request number, in or out of order, and marks a   *)
(* fetched request's slot done or asks again.                              *)
(***************************************************************************)
ReqIdle == [pc |-> "idle", req |-> -1, last_put |-> -1, last_get |-> -1,
            m |-> EmptyMB, ret |-> -1]

\* the request numbers the consumer asks for
ReqArgs == 0 .. MaxPut

\* mutant: last_get_req is written for every fetched request
get_req_advances_always(last_get, req) == TRUE

\* if (last_get + 1 == req)
get_req_advances(last_get, req) == last_get + 1 = req

\* urpc_get_req after its two reads: the return value, the mailbox copied to
\* *m, and the value of last_get_req afterwards
urpc_get_req(last_put, last_get, slots, m, req) ==
  IF last_get >= req
    THEN [ret |-> -1, m |-> m, last_get_req |-> last_get]
  ELSE IF last_put >= req
    THEN [ret |-> req, m |-> slots[REQ2SLOT(req)],
          last_get_req |-> IF get_req_advances(last_get, req)
                             THEN req ELSE last_get]
  ELSE [ret |-> -1, m |-> m, last_get_req |-> last_get]

\* urpc_get_req(tq, m, req) starts: the reads of last_put_req and last_get_req
get_req_read(req) ==
  /\ cons.pc \in {"idle", "ret"}
  /\ cons' = [ReqIdle EXCEPT !.pc = "test", !.req = req, !.m = cons.m,
                             !.last_put = last_put_req,
                             !.last_get = last_get_req]
  /\ UNCHANGED <<last_put_req, last_get_req, mb, mlist, free_begin, free_end,
                 prod, sent, rcvd, ndone,
                 ctxvars, codecvars>>

\* the tests, the read of the mailbox slot, the write of last_get_req, return
get_req_fetch ==
  /\ cons.pc = "test"
  /\ LET r == urpc_get_req(cons.last_put, cons.last_get, mb, cons.m, cons.req)
     IN /\ last_get_req' = r.last_get_req
        /\ cons' = [cons EXCEPT !.pc = "ret", !.ret = r.ret, !.m = r.m]
  /\ UNCHANGED <<last_put_req, mb, mlist, free_begin, free_end,
                 prod, sent, rcvd, ndone,
                 ctxvars, codecvars>>

\* the caller handled the fetched command, if the slot held one:
\* urpc_slot_done(tq, REQ2SLOT(req), &m)
get_req_slot_done ==
  /\ cons.pc = "ret" /\ cons.ret >= 0
  /\ cons.m.cmd # URPC_CMD_NONE
  /\ mb' = [mb EXCEPT ![slot_done_slot(cons.ret)] =
              [cons.m EXCEPT !.cmd = URPC_CMD_NONE]]
  /\ ndone' = ndone + 1
  /\ cons' = [cons EXCEPT !.pc = "idle"]
  /\ UNCHANGED <<last_put_req, last_get_req, mlist, free_begin, free_end,
                 prod, sent, rcvd,
                 ctxvars, codecvars>>

InitReq ==
  /\ vh_urpc_comm_init
  /\ prod = ProdIdle
  /\ cons = ReqIdle
  /\ sent = <<>>
  /\ rcvd = <<>>
  /\ ndone = 0
  /\ ThreadContext_ctor
  /\ is_main_thread = TRUE
  /\ codec = CodecIdle

NextReq ==
  \/ \E c \in Cmds : generic_send_begin(c, 0)
  \/ put_cmd_read_req
  \/ put_cmd_spin
  \/ put_cmd_write_mb
  \/ put_cmd_write_req
  \/ \E req \in ReqArgs : get_req_read(req)
  \/ get_req_fetch
  \/ get_req_slot_done

SpecReq == InitReq /\ [][NextReq]_vars

(***************************************************************************)
(* Properties of the transfer queue (checked under SpecTQ).                *)
(***************************************************************************)
\* a slot whose request is published and not yet marked done, with payload
Live(s) == mb[s].cmd # URPC_CMD_NONE /\ mlist[s].len > 0
Bytes(offs, len) == {b \in 0 .. 2 * URPC_DATA_BUFF_LEN : offs <= b /\ b < offs + len}
Region(s) == Bytes(mlist[s].offs, mlist[s].len)
FreeInterval == {b \in 0 .. 2 * URPC_DATA_BUFF_LEN : free_begin <= b /\ b < free_end}

C3_Fifo ==
  /\ \A k \in 1 .. Len(sent) : sent[k].req = k - 1
  /\ Len(rcvd) <= Len(sent)
  /\ \A k \in 1 .. Len(rcvd) : rcvd[k] = sent[k]
C3_GetNone ==
  (cons.pc = "rd_get" /\ cons' # cons) =>
     IF cons.last_put = last_get_req
       THEN /\ cons'.pc = "idle"
            /\ UNCHANGED <<last_put_req, last_get_req, mb, rcvd>>
       ELSE cons'.pc = "rd_mb" /\ cons'.req = last_get_req + 1
\* C3: transfer-queue FIFO delivery.  urpc_put_cmd returns the request IDs
\* 0, 1, 2, ...; the k-th successful urpc_get_cmd returns the k-th ID with
\* exactly the cmd/offs/len that put published for it (nothing lost, duplicated
\* or reordered), under every interleaving of the two sides' reads and writes;
\* and urpc_get_cmd returns none and changes nothing when the last_put_req it
\* read equals last_get_req.
C3_FifoDelivery == [](C3_Fifo) /\ [][C3_GetNone]_vars
\* the consumer has received more requests than there are slots, so slots were
\* reused, and the requests carried different payloads
C3_Witness ==
  /\ Len(rcvd) > URPC_LEN_MB
  /\ \E j, k \in 1 .. Len(rcvd) : rcvd[j].len # rcvd[k].len

\* C4: sequence-counter bound.  In every reachable state
\* last_get_req <= last_put_req <= last_get_req + N.
C4_SeqBound ==
  /\ last_get_req <= last_put_req
  /\ last_put_req <= last_get_req + URPC_LEN_MB
\* the queue is full: N requests published and none of them fetched, with the
\* producer waiting for the slot of the next one
C4_Witness ==
  /\ last_put_req = last_get_req + URPC_LEN_MB
  /\ prod.pc = "put_spin"

C5_Slots ==
  /\ \A s \in Slots : mb[s].cmd # URPC_CMD_NONE => mb[s].cmd \in 1 .. URPC_MAX_HANDLERS
  /\ prod.pc = "put_write_mb" => mb[prod.slot].cmd = URPC_CMD_NONE
  /\ prod.pc \in {"put_write_mb", "put_write_req"} => prod.req - URPC_LEN_MB < ndone
  /\ \A k \in Len(rcvd) + 1 .. Len(sent) :
        mb[REQ2SLOT(k - 1)] = [cmd |-> sent[k].cmd, offs |-> sent[k].offs, len |-> sent[k].len]
C5_SlotStep ==
  \A s \in Slots :
    mb'[s] # mb[s] =>
      \/ mb[s].cmd = URPC_CMD_NONE
      \/ /\ mb'[s].cmd = URPC_CMD_NONE
         /\ cons.pc = "handler" /\ s = REQ2SLOT(cons.req) /\ cons.req <= last_get_req
\* C5: no overwrite on a full queue.  urpc_put_cmd writes a slot only while its
\* cmd is empty, and only after the receiver has called urpc_slot_done for the
\* request that used the slot before; a slot's cmd only changes from empty to
\* non-empty (a publish) or from non-empty to empty (the slot_done of the
\* request the receiver fetched from it); a non-empty cmd is in
\* 1..MAX_HANDLERS; a published request stays in its slot until it is fetched.
C5_NoOverwrite == [](C5_Slots) /\ [][C5_SlotStep]_vars
\* the producer has just written a slot that an earlier request had used, after
\* having waited for it
C5_Witness ==
  /\ prod.pc = "put_write_req"
  /\ prod.req >= URPC_LEN_MB
  /\ last_put_req - last_get_req = URPC_LEN_MB - 1

\* C6: allocator disjointness.  The payload regions that mlist records for the
\* slots that are still non-empty are pairwise disjoint, none of them
\* intersects the free interval [free_begin, free_end), and the region
\* _alloc_payload hands out does not intersect any of them.
C6_Disjoint ==
  /\ \A s, t \in Slots : (s # t /\ Live(s) /\ Live(t)) => Region(s) \cap Region(t) = {}
  /\ \A s \in Slots : Live(s) => Region(s) \cap FreeInterval = {}
  /\ (prod.pc \in {"put_read", "put_spin"} /\ prod.len > 0) =>
        \A s \in Slots : Live(s) => Region(s) \cap Bytes(prod.offs, prod.len) = {}

(***************************************************************************)
(* Properties of the context engine (checked under Spec).                  *)
(***************************************************************************)
\* the command is held by one of the three queues of comq
Owned(id) == id \in Ids(pending) \cup Ids(in_flight) \cup Ids(completions)
\* a completion for the ID has been pushed: a peek can report it finished
Finished(id) == cstatus[id] # "NONE"
\* a was appended to pending before b
Before(a, b) ==
  \E i, j \in 1 .. Len(pushOrder) :
     i < j /\ pushOrder[i].id = a /\ pushOrder[j].id = b
KindOf(id) == First(pushOrder, id).kind

\* C1: exactly-once observability.  Every ID that callAsync or callVHAsync
\* returned gets exactly one final status from callPeekResult: its
\* completion is never handed out twice, and as long as it has not been
\* handed out the command is still in pending, in_flight or completions, the
\* only places from which a completion for it can come.
C1_ExactlyOnce ==
  \A id \in returned :
     /\ delivered[id] <= 1
     /\ delivered[id] = 0 => Owned(id)

\* C2: completion order.  If A and B were submitted with callAsync, A before
\* B, no callPeekResult has reported B finished while A has no completion
\* yet (completions are pushed in the order of submission).
C2_CompletionOrder ==
  \A a, b \in Ids(pushOrder) :
     (Before(a, b) /\ KindOf(a) = "remote" /\ KindOf(b) = "remote"
        /\ delivered[b] > 0)
        => Finished(a)

\* a step in which the function of the host-side command v runs
C7_Runs(v) == v.kind = "vh" /\ v.id \notin executed /\ v.id \in executed'
C7_VHStep ==
  \A k \in 1 .. Len(pushOrder) :
     C7_Runs(pushOrder[k]) =>
        /\ in_flight' = <<>>
        /\ \A j \in 1 .. k - 1 :
              pushOrder[j].kind = "remote" =>
                 /\ pushOrder[j].id \notin Ids(pending')
                 /\ pushOrder[j].id \in published'
                       => pushOrder[j].id \in replied'
\* C7: host-side ordering.  When the function of a callVHAsync command runs,
\* in_flight is empty, and every remote call appended to pending before it
\* has left pending and, if it was sent, has had its reply processed.
C7_HostSideOrdering == [][C7_VHStep]_vars
\* a host-side function has run after the reply of an earlier remote call
C7_Witness ==
  \E v \in executed : \E r \in replied : Before(r, v)

\* nobody but thread t is inside the API and the peer has no call to serve
C8_Alone(t) ==
  /\ \A u \in Threads \ {t} : th[u].op = "idle"
  /\ urpc_get_cmd(sendq).req < 0
C9_CloseStep ==
  \A t \in Threads :
     (th[t].op = "close" /\ th[t].pc = "wait" /\ th'[t].op = "idle"
        /\ th[t].snap # {})
        => /\ in_flight' = <<>>
           /\ \A id \in th[t].snap : cstatus'[id] = "ERROR"
C10_FailStep ==
  bad_reply' # bad_reply =>
     /\ recvq'.mb[REQ2SLOT(recvq'.last_get_req)] = "none"
     /\ bad_reply' \in Ids(completions')
     /\ cstatus'[bad_reply'] = "EXCEPTION"
\* the step in which the queues are cancelled
C10_CancelStep ==
  \A t \in Threads :
     (th[t].pc = "cancel" /\ th'[t].pc # "cancel") =>
        \A id \in Ids(pending) \cup Ids(in_flight) :
           id \in Ids(completions') /\ cstatus'[id] = "ERROR"
\* a step in which thread t comes back from progress
C10_Leaves(t) ==
  /\ th[t].pc \in {"lock", "iter", "cancel"}
  /\ th'[t].pc \notin {"lock", "iter", "exit", "cancel"}
C10_ReturnStep ==
  \A t \in Threads :
     (C10_Leaves(t) /\ bad_reply' # -1) =>
        state' = "EXIT" /\ pending' = <<>> /\ in_flight' = <<>>
\* a call made once the context is poisoned does not get past its check:
\* no idle thread enters callAsync or callVHAsync, and while all threads
\* are idle no ID is issued and nothing is enqueued
C10_LaterCall ==
  (state = "EXIT" /\ bad_reply # -1) =>
     /\ \A t \in Threads :
           th[t].op = "idle" => th'[t].op \notin {"callAsync", "callVHAsync"}
     /\ (\A t \in Threads : th[t].op = "idle")
           => UNCHANGED <<pending, seq_no, rem_reqid>>
\* C10: a failing reply thunk poisons the context.  When a reply thunk
\* returns a negative value, the reply's recv slot is marked done and the
\* command is completed (with the exception status); when that progress call
\* returns, state is EXIT, pending and in_flight are empty and every command
\* they held is in completions with the error status; every later callAsync
\* or callVHAsync returns without issuing an ID or enqueuing anything.
C10_Poison ==
  [][C10_FailStep /\ C10_CancelStep /\ C10_ReturnStep /\ C10_LaterCall]_vars
\* the progress call that saw the failing reply has returned, and another
\* command was cancelled by it
C10_Witness ==
  /\ bad_reply # -1
  /\ prog_mtx = NoThread
  /\ state = "EXIT"
  /\ \E id \in ReqIds : id # bad_reply /\ cstatus[id] = "ERROR"

\* the head of pending is a remote command whose submit thunk fails, and a
\* step takes it out of pending
C11_SubmitFails ==
  /\ pending # <<>>
  /\ Head(pending).kind = "remote"
  /\ submit_thunk(Head(pending)) # 0
  /\ Head(pending).id \notin Ids(pending')
C11_Step ==
  C11_SubmitFails =>
     /\ Head(pending).id \in Ids(completions')
     /\ cstatus'[Head(pending).id] = "ERROR"
     /\ Head(pending).id \notin Ids(in_flight')
\* C11: submit failure becomes an error completion.  When a remote command
\* whose submit thunk returns non-zero leaves pending, it is pushed to
\* completions with status ERROR (so that callPeekResult returns ERROR for
\* it) and is not placed in in_flight.
C11_SubmitError == [][C11_Step]_vars

\* C12: a valid ID means an enqueued command.  callAsync and callVHAsync
\* return INVALID when they refuse the call at entry or when pushRequest
\* fails, so every ID they did return belongs to a command that was
\* appended to pending.
C12_ValidIdEnqueued == \A id \in returned : id \in Ids(pushOrder)

\* while a thread is in synchronize it holds submit_mtx
C13_HoldsLock ==
  \A t \in Threads : th[t].op = "synchronize" => submit_mtx = t
\* while a thread is in synchronize, no callAsync or callVHAsync command is
\* appended to pending
C13_NoAppend ==
  ((\E t \in Threads : th[t].op = "synchronize")
      /\ Len(pushOrder') > Len(pushOrder))
     => pushOrder'[Len(pushOrder')].kind = "close"
\* synchronize is left only with both queues empty
C13_ReturnStep ==
  \A t \in Threads :
     (th[t].op = "synchronize" /\ th'[t].op = "idle")
        => pending' = <<>> /\ in_flight' = <<>>
\* C13: synchronize drains the context.  It holds submit_mtx for its whole
\* duration, so that no callAsync or callVHAsync appends to pending
\* meanwhile; it returns only in a state where pending and in_flight are
\* both empty; and, the peer answering every published request, it
\* eventually returns.
C13_Synchronize ==
  /\ [](C13_HoldsLock)
  /\ [][C13_NoAppend /\ C13_ReturnStep]_vars
  /\ \A t \in Threads : (th[t].op = "synchronize") ~> (th[t].op = "idle")
\* synchronize is about to return after replies were processed while it
\* held the lock and another thread waits to submit
C13_Witness ==
  \E t, u \in Threads :
     /\ th[t].op = "synchronize" /\ th[t].pc = "test"
     /\ synchronize_done(pending, in_flight)
     /\ replied # {}
     /\ th[u].pc = "push" /\ th[u].op = "callAsync"

\* the requests the running urpc_recv_progress call has taken so far
C14_Popped == Len(rcvd) - cons.start

C14_Budget ==
  /\ C14_Popped <= cons.ncmds
  /\ cons.pc = "idle" /\ cons.ret >= 0 => cons.ret = C14_Popped

\* between two requests and at the return every request taken is marked done
C14_Freed ==
  /\ cons.pc \in {"loop", "idle"} => ndone = Len(rcvd)
  /\ cons.pc \in {"handler", "slot_done"} => ndone = Len(rcvd) - 1

\* a request taken and not overtaken by a later publication has a free slot
C14_SlotFree ==
  \A i \in 1 .. ndone :
     rcvd[i].req + URPC_LEN_MB > last_put_req /\ prod.pc # "put_write_req"
       => mb[REQ2SLOT(rcvd[i].req)].cmd = URPC_CMD_NONE

\* C14: urpc_recv_progress(ncmds) takes at most ncmds requests and returns the
\* number it took; every request it took is marked done with urpc_slot_done
\* on its own slot before the next one is taken or the call returns, whatever
\* the handler returned and also when no handler is registered, so the slot is
\* free for the producer.
C14_RecvProgressFrees == C14_Budget /\ C14_Freed /\ C14_SlotFree

C14_Witness ==
  /\ cons.pc = "idle" /\ cons.ret = MaxBudget
  /\ cons.seen = {"error", "no handler"}
  /\ last_put_req >= URPC_LEN_MB

\* the sender is inside a send whose payload is larger than the data ring
C15_Oversized == prod.pc # "idle" /\ prod.size > URPC_DATA_BUFF_LEN

\* such a send never gets a payload buffer, so it never reaches urpc_put_cmd
C15_NoBuffer ==
  C15_Oversized =>
    prod.pc \in {"alloc_test", "gc_begin", "gc_read", "gc_apply", "gc_done",
                 "alloc_check"}

\* no step of such a send publishes anything: last_put_req stays, no mailbox
\* slot gets a command, nothing is added to the published requests
C15_Step ==
  C15_Oversized /\ prod' # prod =>
    /\ last_put_req' = last_put_req
    /\ sent' = sent
    /\ \A s \in Slots : mb'[s].cmd = mb[s].cmd \/ mb'[s].cmd = URPC_CMD_NONE
    /\ prod'.pc = "idle" => prod' = ProdIdle

\* C15: a send whose packed payload is larger than the data ring never gets a
\* payload buffer and ends with the failure of _alloc_payload (return 0,
\* urpc_generic_send returns -ENOMEM) once the allocation deadline has
\* passed; it writes no command to a mailbox slot and leaves last_put_req
\* unchanged.
C15_Oversize ==
  /\ [](C15_NoBuffer)
  /\ [][C15_Step]_vars
  /\ (C15_Oversized ~> prod.pc = "idle")

C15_Witness ==
  /\ C15_Oversized /\ prod.pc = "gc_done" /\ last_put_req >= 1
  /\ free_begin > 0

\* C19: free-interval invariant.  In every state reached through
\* _alloc_payload, _gc_buffer, urpc_put_cmd and the receiver's urpc_slot_done
\* the allocator offsets satisfy 0 <= free_begin <= free_end <=
\* URPC_DATA_BUFF_LEN, so the unsigned free_end - free_begin never wraps.
C19_FreeInterval ==
  /\ 0 <= free_begin
  /\ free_begin <= free_end
  /\ free_end <= URPC_DATA_BUFF_LEN

\* every published request was fetched and marked done, nobody is at work
C16_AllDone ==
  /\ prod.pc = "idle" /\ cons.pc = "idle"
  /\ last_get_req = last_put_req
  /\ \A s \in Slots : mb[s].cmd = URPC_CMD_NONE

\* C16: no payload bytes are lost across a wrap.  Once the receiver has marked
\* every published request done, the gc passes of an allocation make the
\* whole ring available again, so that an allocation of the size of the ring
\* (and with it of any smaller size) gets its buffer.
C16_RingRecovered ==
  C16_AllDone => alloc_payload(AllocState, URPC_DATA_BUFF_LEN, GcPasses) = "buffer"

\* field i of the format came back as it was sent
C18_FieldBack(i) ==
  LET c == codec.fmt[i]
      a == codec.args[i]
      o == codec.out[i]
  IN  /\ c \in {"I", "L"} => o.v = a.v
      /\ c = "P" => /\ o.n = Len(a.b)
                    /\ 0 <= o.ptr /\ o.ptr + o.n <= Len(codec.payload)
                    /\ Load(codec.payload, o.ptr, o.n) = a.b

\* C18: codec round trip.  For a format string over I, L, x, P that keeps the
\* alignment rules and any argument values, urpc_unpack_payload applied with
\* the same format to the payload urpc_generic_send packed returns 0 and
\* yields the same I and L values and, for every P field, the same byte count
\* and bytes, the pointer pointing into the payload; the payload's length is
\* a multiple of 8.
C18_RoundTrip ==
  /\ codec.pc \in {"sent", "unpacked"} => Len(codec.payload) % 8 = 0
  /\ codec.pc = "unpacked" =>
       /\ codec.rc = 0
       /\ Len(codec.out) = Len(codec.fmt)
       /\ \A i \in 1 .. Len(codec.fmt) : C18_FieldBack(i)

C18_Witness ==
  /\ codec.pc = "unpacked"
  /\ codec.fmt = <<"I", "x", "P">>
  /\ codec.args[1].v = 16909060 /\ Len(codec.args[3].b) = 3
  /\ codec.fill = 85
  /\ codec.rc = 0 /\ Len(codec.payload) = 24

\* C20: progress(ops) is bounded by ops.  A call progress(ops) with ops > 0
\* runs at most ops iterations of its loop: a thread that was given a budget
\* and has used it up does not go round the loop again; only progress(0)
\* loops while forward progress is made.
C20_OpsBound ==
  \A t \in Threads :
     th[t].pc = "iter" /\ progress_ops(th[t].op) > 0 => th[t].ops > 0

\* every slot of the send queue holds a call
C17_SendFull == \A s \in Slots : sendq.mb[s] # "none"

\* nothing is published onto a full send queue
C17_NoPublish ==
  C17_SendFull => sendq'.last_put_req = sendq.last_put_req

\* thread t comes back from callAsync with a request ID
C17_Returns(t) ==
  /\ th[t].op = "callAsync" /\ th'[t].op = "idle"
  /\ th[t].id \in returned' /\ th[t].id \notin returned

\* as long as no reply was sent no callAsync comes back with a request ID
C17_Blocks ==
  \A t \in Threads : C17_Returns(t) => recvq'.last_put_req >= 0

C17_Queued ==
  \A t \in Threads :
     C17_Returns(t) /\ sendq'.last_get_req = -1 =>
        /\ th[t].id \in Ids(pending')
        /\ th[t].id \notin published'

C21_Step ==
  (pending # <<>> /\ isVH(Head(pending))
     /\ Head(pending).id \notin Ids(completions'))
    => (pending' # <<>> /\ Head(pending') = Head(pending))

\* C21: host-side commands are deferred, not dropped.  A host-side command
\* that progress finds at the head of pending while in_flight is non-empty is
\* not executed and stays the head of pending: it is neither lost nor
\* overtaken by a later command.
C21_Deferred == [][C21_Step]_vars

\* the free interval after the step
C22_FreeAfter ==
  {b \in 0 .. 2 * URPC_DATA_BUFF_LEN : free_begin' <= b /\ b < free_end'}

\* a step of the walk of _gc_buffer that moves free_end does not move it over
\* the region recorded for a slot that is still live
C22_Step ==
  (prod.pc = "gc_apply" /\ free_end' # free_end)
    => \A s \in Slots : Live(s) => Region(s) \cap C22_FreeAfter = {}

\* C22: gc reclaims only a contiguous finished prefix.  The walk of _gc_buffer
\* goes through the slots in submission order and stops extending free_end at
\* the first slot that is still non-empty, so free_end is never moved past a
\* region recorded for a still-live slot.
C22_Prefix == [][C22_Step]_vars

\* the remote commands in the order progress published them: pending is a
\* FIFO, so this is the push order restricted to the published commands
C23_PublishSeq ==
  SelectSeq(pushOrder, LAMBDA c : ~isVH(c) /\ c.id \in published)

C23_Step ==
  (recvq'.last_get_req # recvq.last_get_req) =>
    IF in_flight = <<>>
      THEN /\ replied' = replied
           /\ completions' = completions
           /\ state' = "EXIT"
           /\ \E t \in Threads : th[t].op # "idle" /\ th'[t] = Idle
      ELSE LET k == recvq'.last_get_req + 1 IN
           /\ replied' = replied \cup {Head(in_flight).id}
           /\ Head(in_flight).id \notin replied
           /\ Head(in_flight).id \in Ids(completions')
           /\ k <= Len(C23_PublishSeq)
           /\ C23_PublishSeq[k].id = Head(in_flight).id

C24_Body == {"iter", "exit", "cancel"}

\* at most one thread is in the body of progress, and it holds prog_mtx
C24_One ==
  /\ Cardinality({t \in Threads : th[t].pc \in C24_Body}) <= 1
  /\ \A t \in Threads : th[t].pc \in C24_Body => prog_mtx = t

\* the host takes a reply from the recv queue (urpc_get_cmd, urpc_slot_done)
\* or publishes on the send queue (allocation and urpc_put_cmd)
C24_HostAccess ==
  \/ recvq'.last_get_req # recvq.last_get_req
  \/ sendq'.last_put_req # sendq.last_put_req

\* a transport access is the step of one thread that holds prog_mtx, or takes
\* it free in this step, while no other thread is in the body or moves
C24_Step ==
  C24_HostAccess =>
    \E t \in Threads :
      /\ \/ th[t].pc = "iter" /\ prog_mtx = t
         \/ th[t].pc = "lock" /\ prog_mtx = NoThread
      /\ th'[t] # th[t]
      /\ \A u \in Threads \ {t} :
           th[u].pc \notin C24_Body /\ th'[u] = th[u]

\* C24: at most one thread at a time executes the body of progress, and every
\* access of the host to the recv queue or the send queue is made by the
\* thread that holds prog_mtx, so each queue has one host-side user at a time.
C24_SingleProgress == []C24_One /\ [][C24_Step]_vars

\* one thread is in the body after publishing, another waits for prog_mtx
C24_Witness ==
  /\ sendq.last_put_req >= 0
  /\ \E t, u \in Threads :
       /\ t # u
       /\ th[t].pc = "iter" /\ prog_mtx = t
       /\ th[u].pc = "lock"

\* a command is appended to pending only by a thread that takes submit_mtx
\* for the append: the mutex is not held by another thread, and no thread is
\* inside synchronize
C25_Append ==
  Len(pushOrder') > Len(pushOrder) =>
    /\ submit_mtx = NoThread
    /\ \A t \in Threads : th[t].op # "synchronize"

\* a command leaves pending or in_flight only in a step of the thread that
\* holds prog_mtx, or takes it free in this step
C25_Remove ==
  (\/ Ids(pending) \ Ids(pending') # {}
   \/ Ids(in_flight) \ Ids(in_flight') # {}) =>
    \E t \in Threads :
      /\ th'[t] # th[t]
      /\ \/ th[t].pc \in C24_Body /\ prog_mtx = t
         \/ th[t].pc = "lock" /\ prog_mtx = NoThread

C26_Step ==
  (cons.pc = "test" /\ cons'.pc = "ret") =>
    LET req == cons.req IN
    /\ cons.last_get = last_get_req
    /\ mb' = mb /\ last_put_req' = last_put_req
    /\ IF req <= last_get_req \/ req > cons.last_put
         THEN /\ cons'.ret = -1
              /\ cons'.m = cons.m
              /\ last_get_req' = last_get_req
         ELSE /\ cons'.ret = req
              /\ cons'.m = mb[REQ2SLOT(req)]
              /\ last_get_req' = IF req = last_get_req + 1
                                   THEN req ELSE last_get_req

\* C26: urpc_get_req(req) returns -1 and changes nothing when
\* req <= last_get_req or req > last_put_req; otherwise it returns req with
\* the contents of slot REQ2SLOT(req) and writes last_get_req = req only when
\* req = last_get_req + 1; last_put_req and the mailbox slots never change.
C26_GetReq == [][C26_Step]_vars

\* a published request was fetched out of order: last_get_req stayed behind
C26_Witness ==
  /\ cons.pc = "ret" /\ cons.ret = cons.req
  /\ cons.req > last_get_req + 1
  /\ cons.m.cmd # URPC_CMD_NONE
  /\ ndone > 0

====
